---- MODULE Spec2Model ----
(***************************************************************************)
(* The Kiwi quiz game: the App component (src/src/App.jsx), the Random    *)
(* utility (src/src/Utilities/Random.jsx) and the quiz module             *)
(* (quizData, sortedListAnswers).                                          *)
(*                                                                         *)
(* One state of the model is one committed render of App: the values of    *)
(* its three useState cells.  One step is one user event; React runs the   *)
(* handler to completion, applies the queued setState calls together and   *)
(* renders again before the next event is dispatched.                      *)
(*                                                                         *)
(* Strings are TLA+ strings.  The four non-ASCII characters of the corpus  *)
(* (two kinds of curly quote and a-macron) are written as their ASCII      *)
(* look-alikes; they occur after the first differing character of every   *)
(* pair of answers, so the order of the answers is the same.               *)
(***************************************************************************)
EXTENDS Integers, Sequences, FiniteSets, TLC

VARIABLES
  quizData,   \* the array exported by the quiz module (never assigned by App)
  gameData,   \* useState cell: the question and answer on display
  answer,     \* useState cell: the answer the user selected, "" when none
  winlose,    \* useState cell: the win/lose suffix of the message
  thrown,     \* the exception the last handler raised, "" when it returned
  event,      \* history: the last user event, its input and the state before
  timer,        \* the Timer component of MockingAndAdvanced.test.js
  contactForm,  \* the ContactForm component of the form suite
  authProvider, \* the AuthProvider component of ContextAndProviders.test.js
  todoList      \* the TodoList component of the form suite

\* the components the test suites define beside App; App never touches them
components == <<timer, contactForm, authProvider, todoList>>

\* the quiz module and the cells of App; the other components never touch them
app == <<quizData, gameData, answer, winlose, thrown>>

vars == <<quizData, gameData, answer, winlose, thrown, event, components>>

-----------------------------------------------------------------------------
(* Bounds of the model                                                     *)

\* Math.random() is modelled as draw / RandomResolution, draw in
\* 0 .. RandomResolution - 1
RandomResolution == 32

\* the corpora tried besides the shipped one and the test suites' ones are
\* the prefixes of the shipped corpus of length 1 .. MaxPrefix
MaxPrefix == 6

\* the lengths handed to Random when it is called on its own are 1 .. MaxLength
MaxLength == 30

\* sortedListAnswers called on its own is run on the shipped corpus and on
\* every corpus of 0 .. MaxSortLength entries whose answers come from AnswerPool
MaxSortLength == 3

\* Timer: the clock advances by ticks, TicksPerSecond of them to the 1000 ms
\* of the interval, and is followed up to MaxSeconds seconds on display
TicksPerSecond == 4

MaxSeconds == 8

\* ContactForm: the calls of the onSubmit prop that are followed
MaxSubmissions == 2

\* TodoList: the todos a list may hold and the milliseconds the clock runs
MaxTodos == 3

MaxNow == 2

-----------------------------------------------------------------------------
(* The quiz module                                                         *)

quizDataKiwi ==
  <<
    [Q |-> "What is the capital of New Zealand",
     A |-> "Wellington"],
    [Q |-> "What is New Zealand's official name in Maori",
     A |-> "Aotearoa"],
    [Q |-> "What currency is used in New Zealand",
     A |-> "New Zealand Dollar"],
    [Q |-> "What colours are on the flag of New Zealand",
     A |-> "Blue, red and white"],
    [Q |-> "What are the two main political parties in New Zealand",
     A |-> "National and Labour"],
    [Q |-> "What is the nickname given to New Zealanders",
     A |-> "Kiwi(s)"],
    [Q |-> "Who was the first European to arrive in New Zealand",
     A |-> "(+ Bonus point for his nationality) Abel Tasman, Dutch"],
    [Q |-> "Who is New Zealand's monarch",
     A |-> "King Charles"],
    [Q |-> "How many official languages are there in NZ",
     A |-> "Two. Te reo Maori (the language Maori) and New Zealand Sign Language."],
    [Q |-> "What are the two national anthems of New Zealand",
     A |-> "(1 point each) \"God defend New Zealand\" and \"God Save the Queen\""],
    [Q |-> "How tall is Aoraki Mount Cook",
     A |-> "3,754 metres"],
    [Q |-> "When did Captain Cook come to the islands",
     A |-> "1769"],
    [Q |-> "When did New Zealand gain independence from Britain",
     A |-> "1947"],
    [Q |-> "What animal can you find on a 1 dollar coin",
     A |-> "Kiwi"],
    [Q |-> "In 1893, New Zealand became the first country to do what",
     A |-> "Give women the right to vote"],
    [Q |-> "What is a Tuatara",
     A |-> "Reptile"],
    [Q |-> "When was NZ Rugby Football Union founded",
     A |-> "1892"],
    [Q |-> "When was New Zealand first Poppy Day",
     A |-> "1922"],
    [Q |-> "What is the name of the strait that separates the North and South Islands",
     A |-> "Cook Strait"],
    [Q |-> "What is the largest lake in New Zealand",
     A |-> "Lake Taupo"],
    [Q |-> "What is the largest city in New Zealand",
     A |-> "Auckland"],
    [Q |-> "What is the highest mountain peak in New Zealand",
     A |-> "Aoraki Mount Cook"],
    [Q |-> "How many regions are there in New Zealand",
     A |-> "16"],
    [Q |-> "What is the highest range of mountains in Australasia",
     A |-> "Southern Alps"],
    [Q |-> "What is the largest glacier in New Zealand",
     A |-> "The Tasman Glacier"],
    [Q |-> "On which island can you find the Canterbury Plains",
     A |-> "South Island"],
    [Q |-> "What is the longest river in New Zealand",
     A |-> "Waikato River"],
    [Q |-> "In which city can you find the Sky Tower",
     A |-> "Auckland"]
  >>

\* the corpus the Game.test.js suite installs in place of the quiz module
quizDataGameTest ==
  << [Q |-> "Capital of France?", A |-> "Paris"],
     [Q |-> "2 + 2?", A |-> "4"] >>

\* the corpus the GameMechanics.test.js suite installs
quizDataGameMechanics ==
  << [Q |-> "What is 2 + 2?", A |-> "4"],
     [Q |-> "What color is the sky?", A |-> "Blue"] >>

\* every corpus the model is run on; all are non-empty
Corpora ==
  {quizDataKiwi, quizDataGameTest, quizDataGameMechanics}
    \cup {SubSeq(quizDataKiwi, 1, n) : n \in 1..MaxPrefix}

-----------------------------------------------------------------------------
(* JavaScript strings: the relational operators compare UTF-16 code units  *)

\* the printable ASCII characters in code-unit order, in two runs: 32 (space)
\* to 95 (underscore), and 97 (a) to 126 (tilde); 96 is the backquote, which
\* no string of the corpus contains
AsciiTo95 ==
  " !\"#$%&'()*+,-./0123456789:;<=>?@ABCDEFGHIJKLMNOPQRSTUVWXYZ[\\]^_"

AsciiFrom97 == "abcdefghijklmnopqrstuvwxyz{|}~"

\* the code unit of a one-character string
CodeUnit ==
  [c \in {SubSeq(AsciiTo95, i, i) : i \in 1..Len(AsciiTo95)} |->
     31 + (CHOOSE i \in 1..Len(AsciiTo95) : SubSeq(AsciiTo95, i, i) = c)]
  @@
  [c \in {SubSeq(AsciiFrom97, i, i) : i \in 1..Len(AsciiFrom97)} |->
     96 + (CHOOSE i \in 1..Len(AsciiFrom97) : SubSeq(AsciiFrom97, i, i) = c)]

RECURSIVE GreaterFrom(_, _, _)
\* a > b decided from character i on, the earlier characters being equal
GreaterFrom(a, b, i) ==
  IF i > Len(a) THEN FALSE
  ELSE IF i > Len(b) THEN TRUE
  ELSE LET ca == CodeUnit[SubSeq(a, i, i)]
           cb == CodeUnit[SubSeq(b, i, i)]
       IN  IF ca = cb THEN GreaterFrom(a, b, i + 1) ELSE ca > cb

\* the JavaScript expression  a > b  on two strings
StringGreater(a, b) == GreaterFrom(a, b, 1)

-----------------------------------------------------------------------------
(* sortedListAnswers                                                       *)

\* the comparator with the test turned round:  a.value < b.value ? 1 : -1
compare_Descending(a, b) == IF StringGreater(b.value, a.value) THEN 1 ELSE -1

\* the comparator handed to sort:  (a, b) => (a.value > b.value ? 1 : -1)
compare(a, b) == IF StringGreater(a.value, b.value) THEN 1 ELSE -1

RECURSIVE Insert(_, _)
\* x put into the sorted sequence s, after the last element not above it
Insert(s, x) ==
  IF s = <<>> THEN <<x>>
  ELSE IF compare(s[Len(s)], x) > 0
       THEN Append(Insert(SubSeq(s, 1, Len(s) - 1), x), s[Len(s)])
       ELSE Append(s, x)

RECURSIVE sort(_)
\* Array.prototype.sort with the comparator above, as an insertion sort (the
\* engine's choice for an array this short)
sort(list) ==
  IF list = <<>> THEN <<>>
  ELSE Insert(sort(SubSeq(list, 1, Len(list) - 1)), list[Len(list)])

\* sortedListAnswers leaving out the last entry of the corpus
sortedListAnswers_DropsLast(corpus) ==
  LET list == [i \in 1..(Len(corpus) - 1) |->
                 [value |-> corpus[i].A, label |-> corpus[i].A]]
  IN  sort(list)

RECURSIVE Distinct(_)
\* list without the later copies of an element
Distinct(list) ==
  IF list = <<>> THEN <<>>
  ELSE LET front == Distinct(SubSeq(list, 1, Len(list) - 1))
           last == list[Len(list)]
       IN  IF \E i \in 1..Len(front) : front[i] = last
           THEN front
           ELSE Append(front, last)

\* sortedListAnswers keeping one option for each distinct answer
sortedListAnswers_Unique(corpus) ==
  LET list == [i \in 1..Len(corpus) |->
                 [value |-> corpus[i].A, label |-> corpus[i].A]]
  IN  sort(Distinct(list))

\* sortedListAnswers labelling each option with the question
sortedListAnswers_LabelIsQuestion(corpus) ==
  LET list == [i \in 1..Len(corpus) |->
                 [value |-> corpus[i].A, label |-> corpus[i].Q]]
  IN  sort(list)

\* sortedListAnswers taking the question as the value of each option
sortedListAnswers_ValueIsQuestion(corpus) ==
  LET list == [i \in 1..Len(corpus) |->
                 [value |-> corpus[i].Q, label |-> corpus[i].A]]
  IN  sort(list)

\* sortedListAnswers() when the quiz module holds corpus:
\*   list = quizData.map(item => ({value: item.A, label: item.A}))
\*   return [...list].sort(comparator)
sortedListAnswers(corpus) ==
  LET list == [i \in 1..Len(corpus) |->
                 [value |-> corpus[i].A, label |-> corpus[i].A]]
  IN  sort(list)

\* a quiz module that exports no entry:  quizData = []
EmptyCorpus == <<>>

\* a quiz module one of whose entries has the empty string as its answer
quizDataBlankAnswer ==
  << [Q |-> "Question 1", A |-> ""], [Q |-> "Question 2", A |-> "Kiwi"] >>

\* sortedListAnswers() of every corpus App is run on, computed once
SortedAnswers ==
  [corpus \in Corpora \cup {EmptyCorpus, quizDataBlankAnswer} |->
     sortedListAnswers(corpus)]

-----------------------------------------------------------------------------
(* Random                                                                  *)

\* the values Math.random() can return, as numerators over RandomResolution:
\* 0 <= draw / RandomResolution < 1
Draws == 0..(RandomResolution - 1)

\* Random with max = length: the "take one off" of line 5 forgotten
Random_MaxIsLength(length, draw) ==
  LET min == 0
      max == length
  IN  ((draw * (max - min + 1)) \div RandomResolution) + min

\* Random with Math.round in place of Math.floor
Random_Round(length, draw) ==
  LET min == 0
      max == length - 1
  IN  ((2 * draw * (max - min + 1) + RandomResolution)
         \div (2 * RandomResolution)) + min

\* Random without the "+ 1" of line 6
Random_WithoutPlusOne(length, draw) ==
  LET min == 0
      max == length - 1
  IN  ((draw * (max - min)) \div RandomResolution) + min

\* Random(length) when Math.random() returns draw / RandomResolution:
\*   min = 0; max = length - 1
\*   rand = Math.floor(Math.random() * (max - min + 1)) + min
Random(length, draw) ==
  LET min == 0
      max == length - 1
  IN  ((draw * (max - min + 1)) \div RandomResolution) + min

-----------------------------------------------------------------------------
(* JavaScript values a function of App can return                          *)

undefined == [type |-> "undefined"]

\* the value null
null == [type |-> "null"]

String(s) == [type |-> "string", value |-> s]

\* the ToString conversion that  "..." + v  applies to v
ToStringJS(v) == IF v.type = "undefined" THEN "undefined" ELSE v.value

-----------------------------------------------------------------------------
(* The first render of the components defined beside App                   *)

\* Timer: useState(0), useState(false); no interval is set while not running
TimerMounted == [seconds |-> 0, isRunning |-> FALSE, interval |-> null]

\* the formData a ContactForm starts with and goes back to after a submission
EmptyForm == [name |-> "", email |-> "", message |-> "", newsletter |-> FALSE]

\* useState({}) of errors; a key that is absent and a key holding "" render
\* alike, both are ""
NoErrors == [name |-> "", email |-> "", message |-> "", submit |-> ""]

\* ContactForm: its three cells, the submissions awaiting their timeout (the
\* formData each one captured) and the calls made to the onSubmit prop
ContactFormMounted ==
  [formData |-> EmptyForm, errors |-> NoErrors, isSubmitting |-> FALSE,
   awaiting |-> <<>>, onSubmit |-> <<>>]

\* AuthProvider with LoginForm: user and loading of the provider, the fields
\* and the error of the form, and the logins awaiting their timeout
AuthProviderMounted ==
  [user |-> null, loading |-> FALSE, email |-> "", password |-> "",
   error |-> "", awaiting |-> <<>>]

\* TodoList: its two cells, and the millisecond Date.now() currently returns
TodoListMounted == [todos |-> <<>>, inputValue |-> "", now |-> 0]

\* the four components as first rendered
componentsMounted ==
  /\ timer = TimerMounted
  /\ contactForm = ContactFormMounted
  /\ authProvider = AuthProviderMounted
  /\ todoList = TodoListMounted

-----------------------------------------------------------------------------
(* App                                                                     *)
(*                                                                         *)
(* Left out, as nothing reads them: the index every render draws into      *)
(* getRandomIndex, the locals answerLet and gameDataForConsoleLogOnly,     *)
(* which each render makes anew, and the console output.                   *)

\* the initial value of the gameData cell
Start == [Q |-> "Start", A |-> "Start"]

\* const allData = quizData
allData == quizData

\* const answerData = sortedListAnswers(), evaluated by every render
answerData == SortedAnswers[quizData]

\* allData[rand]: the element, or undefined when rand is no index of allData
\* (JavaScript arrays count from 0, sequences from 1)
ElementAt(rand) ==
  IF rand \in 0..(Len(allData) - 1)
  THEN [type |-> "object", value |-> allData[rand + 1]]
  ELSE undefined

\* the state the handlers read and write, as the last render committed it
Cells == [gameData |-> gameData, answer |-> answer, winlose |-> winlose]

\* winLoseCalc comparing with the question in place of the answer
winLoseCalc_ComparesQuestion(answerLet) ==
  IF answerLet # "undefined"
  THEN IF answerLet = gameData.Q THEN String("win") ELSE String("lose")
  ELSE undefined

\* winLoseCalc testing gameData.A.includes(answerLet), which every string
\* passes with the empty choice
winLoseCalc_Includes(answerLet) ==
  IF answerLet # "undefined"
  THEN IF answerLet = "" \/ answerLet = gameData.A
       THEN String("win") ELSE String("lose")
  ELSE undefined

\* winLoseCalc(answerLet); gameData is the value of the render in progress
winLoseCalc(answerLet) ==
  IF answerLet # "undefined"
  THEN IF answerLet = gameData.A THEN String("win") ELSE String("lose")
  ELSE undefined

\* the message with a space put before the hyphen
message_SpaceBeforeHyphen ==
  IF answer # "" THEN "You selected " \o answer \o " " \o winlose ELSE ""

\* the text of the h4 element:
\*   answer ? "You selected " + answer + winlose : ""
message == IF answer # "" THEN "You selected " \o answer \o winlose ELSE ""

\* the text of the h2 element
question == gameData.Q

\* a placeholder that never shows the selected answer
placeholder_Fixed == "Select an Answer"

\* the placeholder prop of the Select:
\*   answer !== "" ? answer : "Select an Answer"
placeholder == IF answer # "" THEN answer ELSE "Select an Answer"

\* a first render that already shows the first question
Init_ShowsFirstQuestion ==
  /\ componentsMounted
  /\ quizData \in Corpora
  /\ gameData = quizData[1]
  /\ answer = ""
  /\ winlose = ""
  /\ thrown = ""
  /\ event = [op |-> "mount"]

Init ==
  /\ componentsMounted
  /\ quizData \in Corpora
  /\ gameData = Start
  /\ answer = ""
  /\ winlose = ""
  /\ thrown = ""
  /\ event = [op |-> "mount"]

\* the handler without setWinlose("")
onClickHandlerNewGame_KeepsWinlose(draw) ==
  LET rand == Random(Len(allData), draw)
      item == ElementAt(rand)
  IN  /\ answer' = ""
      /\ winlose' = winlose
      /\ IF item.type = "object"
         THEN /\ gameData' = [Q |-> item.value.Q, A |-> item.value.A]
              /\ thrown' = ""
         ELSE /\ gameData' = gameData
              /\ thrown' = "TypeError"
      /\ event' = [op |-> "onClickHandlerNewGame", draw |-> draw,
                   rand |-> rand, before |-> Cells]
      /\ UNCHANGED <<components, quizData, components>>

\* the handler drawing a second index for the answer:
\*   {Q: allData[rand].Q, A: allData[Random(allData.length)].A}
onClickHandlerNewGame_TwoDraws(draw) ==
  \E draw2 \in Draws :
    LET rand == Random(Len(allData), draw)
        rand2 == Random(Len(allData), draw2)
        item == ElementAt(rand)
        item2 == ElementAt(rand2)
    IN  /\ answer' = ""
        /\ winlose' = ""
        /\ IF item.type = "object" /\ item2.type = "object"
           THEN /\ gameData' = [Q |-> item.value.Q, A |-> item2.value.A]
                /\ thrown' = ""
           ELSE /\ gameData' = gameData
                /\ thrown' = "TypeError"
        /\ event' = [op |-> "onClickHandlerNewGame", draw |-> draw,
                     rand |-> rand, before |-> Cells]
        /\ UNCHANGED <<components, quizData, components>>

\* the handler taking the next entry when the draw repeats the question on
\* display
onClickHandlerNewGame_NoRepeat(draw) ==
  LET drawn == Random(Len(allData), draw)
      rand == IF ElementAt(drawn).type = "object"
                   /\ ElementAt(drawn).value = gameData
              THEN (drawn + 1) % Len(allData)
              ELSE drawn
      item == ElementAt(rand)
  IN  /\ answer' = ""
      /\ winlose' = ""
      /\ IF item.type = "object"
         THEN /\ gameData' = [Q |-> item.value.Q, A |-> item.value.A]
              /\ thrown' = ""
         ELSE /\ gameData' = gameData
              /\ thrown' = "TypeError"
      /\ event' = [op |-> "onClickHandlerNewGame", draw |-> draw,
                   rand |-> rand, before |-> Cells]
      /\ UNCHANGED <<components, quizData, components>>

\* onClickHandlerNewGame that serves a new question only once the one shown
\* has been answered
onClickHandlerNewGame_OnceAnswered(draw) ==
  LET rand == Random(Len(allData), draw)
      item == ElementAt(rand)
  IN  /\ gameData = Start \/ answer # ""
      /\ answer' = ""
      /\ winlose' = ""
      /\ IF item.type = "object"
         THEN /\ gameData' = [Q |-> item.value.Q, A |-> item.value.A]
              /\ thrown' = ""
         ELSE /\ gameData' = gameData
              /\ thrown' = "TypeError"
      /\ event' = [op |-> "onClickHandlerNewGame", draw |-> draw,
                   rand |-> rand, before |-> Cells]
      /\ UNCHANGED <<components, quizData, components>>

\* onClickHandlerNewGame that shows "Start" again when the entry drawn is the
\* one on display
onClickHandlerNewGame_RestartOnRepeat(draw) ==
  LET rand == Random(Len(allData), draw)
      item == ElementAt(rand)
  IN  /\ answer' = ""
      /\ winlose' = ""
      /\ IF item.type = "object"
         THEN /\ gameData' = IF gameData = item.value
                             THEN Start
                             ELSE [Q |-> item.value.Q, A |-> item.value.A]
              /\ thrown' = ""
         ELSE /\ gameData' = gameData
              /\ thrown' = "TypeError"
      /\ event' = [op |-> "onClickHandlerNewGame", draw |-> draw,
                   rand |-> rand, before |-> Cells]
      /\ UNCHANGED <<components, quizData, components>>

\* onClickHandlerNewGame without its two resets: the selection made on the
\* previous question stays
onClickHandlerNewGame_KeepsSelection(draw) ==
  LET rand == Random(Len(allData), draw)
      item == ElementAt(rand)
  IN  /\ answer' = answer
      /\ winlose' = winlose
      /\ IF item.type = "object"
         THEN /\ gameData' = [Q |-> item.value.Q, A |-> item.value.A]
              /\ thrown' = ""
         ELSE /\ gameData' = gameData
              /\ thrown' = "TypeError"
      /\ event' = [op |-> "onClickHandlerNewGame", draw |-> draw,
                   rand |-> rand, before |-> Cells]
      /\ UNCHANGED <<components, quizData, components>>

\* a click on "Choose a Random Question", Math.random() giving
\* draw / RandomResolution.  Reading .Q of undefined throws; the two setState
\* calls made before it stay queued and are applied.
onClickHandlerNewGame(draw) ==
  LET rand == Random(Len(allData), draw)
      item == ElementAt(rand)
  IN  /\ answer' = ""
      /\ winlose' = ""
      /\ IF item.type = "object"
         THEN /\ gameData' = [Q |-> item.value.Q, A |-> item.value.A]
              /\ thrown' = ""
         ELSE /\ gameData' = gameData
              /\ thrown' = "TypeError"
      /\ event' = [op |-> "onClickHandlerNewGame", draw |-> draw,
                   rand |-> rand, before |-> Cells]
      /\ UNCHANGED <<components, quizData, components>>

\* the handler keeping the result of the first selection for a question
handleAnswerChange_KeepsFirstResult(e) ==
  LET answerLet == e.value
  IN  /\ answer' = e.value
      /\ winlose' = IF winlose # "" THEN winlose
                    ELSE "- you " \o ToStringJS(winLoseCalc(answerLet))
      /\ thrown' = ""
      /\ event' = [op |-> "handleAnswerChange", e |-> e, before |-> Cells]
      /\ UNCHANGED <<components, quizData, gameData>>

\* the handler putting the Start pair back on display
handleAnswerChange_ResetsQuestion(e) ==
  LET answerLet == e.value
  IN  /\ answer' = e.value
      /\ winlose' = "- you " \o ToStringJS(winLoseCalc(answerLet))
      /\ thrown' = ""
      /\ gameData' = Start
      /\ event' = [op |-> "handleAnswerChange", e |-> e, before |-> Cells]
      /\ UNCHANGED <<components, quizData, components>>

\* handleAnswerChange without its call of setWinlose
handleAnswerChange_SetsAnswerOnly(e) ==
  /\ answer' = e.value
  /\ winlose' = winlose
  /\ thrown' = ""
  /\ event' = [op |-> "handleAnswerChange", e |-> e, before |-> Cells]
  /\ UNCHANGED <<components, quizData, gameData>>

\* the dropdown reports that option e was picked
handleAnswerChange(e) ==
  LET answerLet == e.value
  IN  /\ answer' = e.value
      /\ winlose' = "- you " \o ToStringJS(winLoseCalc(answerLet))
      /\ thrown' = ""
      /\ event' = [op |-> "handleAnswerChange", e |-> e, before |-> Cells]
      /\ UNCHANGED <<components, quizData, gameData>>

\* the options the Select element offers:  options={answerData}
Options == {answerData[i] : i \in 1..Len(answerData)}

Next ==
  \/ \E draw \in Draws : onClickHandlerNewGame(draw)
  \/ \E e \in Options : handleAnswerChange(e)

Spec == Init /\ [][Next]_vars

-----------------------------------------------------------------------------
(* Random called on its own, as GameUtilities.test.js does                 *)

\* Random(length) is called outside App and its result kept
RandomCall(length, draw) ==
  /\ event' = [op |-> "Random", length |-> length, draw |-> draw,
               rand |-> Random(length, draw)]
  /\ UNCHANGED <<components, quizData, gameData, answer, winlose, thrown>>

\* GameUtilities.test.js imports the quiz module as shipped and renders nothing
InitRandom == Init /\ quizData = quizDataKiwi

NextRandom ==
  \E length \in 1..MaxLength, draw \in Draws : RandomCall(length, draw)

SpecRandom == InitRandom /\ [][NextRandom]_vars

-----------------------------------------------------------------------------
(* App on a quiz module that may be empty                                  *)

\* the first render: with no entry Random(0) is 0 and sortedListAnswers() is
\* [], neither throws, and App shows "Start" as with any corpus
InitEmpty ==
  /\ componentsMounted
  /\ quizData \in {EmptyCorpus} \cup (Corpora \ {quizDataKiwi})
  /\ gameData = Start
  /\ answer = ""
  /\ winlose = ""
  /\ thrown = ""
  /\ event = [op |-> "mount"]

SpecEmpty == InitEmpty /\ [][Next]_vars

-----------------------------------------------------------------------------
(* handleAnswerChange called with any choice string                        *)

\* choice strings that are no answer of the corpus: the literal the guard of
\* winLoseCalc tests for, the empty string, an option of another list
OtherChoices == {"undefined", "", "Red"}

\* the objects handleAnswerChange may be called with:  { value, label }
AnyChoices ==
  Options \cup {[value |-> s, label |-> s] : s \in OtherChoices}

InitAnyChoice ==
  /\ componentsMounted
  /\ quizData \in Corpora \cup {quizDataBlankAnswer}
  /\ gameData = Start
  /\ answer = ""
  /\ winlose = ""
  /\ thrown = ""
  /\ event = [op |-> "mount"]

NextAnyChoice ==
  \/ \E draw \in Draws : onClickHandlerNewGame(draw)
  \/ \E e \in AnyChoices : handleAnswerChange(e)

SpecAnyChoice == InitAnyChoice /\ [][NextAnyChoice]_vars

-----------------------------------------------------------------------------
(* The handlers statement by statement.  A setter called in a handler      *)
(* queues its update; the cells of the page change when React renders      *)
(* again, once the handler has returned.  event holds the handler in       *)
(* progress: its next statement (pc) and the updates queued so far.        *)

\* setAnswer(value), setWinlose(value), setGameData(value): a queued update
Update(cell, value) == [cell |-> cell, value |-> value]

\* a render that applies only the update queued last
ApplyUpdates_LastOnly(cells, queue) ==
  IF queue = <<>>
  THEN cells
  ELSE [cells EXCEPT ![queue[Len(queue)].cell] = queue[Len(queue)].value]

\* the cells after the queued updates, applied in the order of the calls
RECURSIVE ApplyUpdates(_, _)
ApplyUpdates(cells, queue) ==
  IF queue = <<>>
  THEN cells
  ELSE ApplyUpdates([cells EXCEPT ![Head(queue).cell] = Head(queue).value],
                    Tail(queue))

InitSteps ==
  /\ componentsMounted
  /\ quizData \in Corpora \ {quizDataKiwi}
  /\ gameData = Start
  /\ answer = ""
  /\ winlose = ""
  /\ thrown = ""
  /\ event = [op |-> "mount", pc |-> "idle", queue |-> <<>>,
              before |-> [gameData |-> Start, answer |-> "", winlose |-> ""]]

\* the button is clicked: onClickHandlerNewGame is entered
clickNewGame ==
  /\ event.pc = "idle"
  /\ event' = [op |-> "onClickHandlerNewGame", pc |-> "setAnswer",
               queue |-> <<>>, before |-> Cells]
  /\ thrown' = ""
  /\ UNCHANGED <<components, quizData, gameData, answer, winlose>>

\* setAnswer("")
newGameSetAnswer ==
  /\ event.op = "onClickHandlerNewGame"
  /\ event.pc = "setAnswer"
  /\ event' = [event EXCEPT !.queue = Append(@, Update("answer", "")),
                            !.pc = "setWinlose"]
  /\ UNCHANGED <<components, quizData, gameData, answer, winlose, thrown>>

\* setWinlose("")
newGameSetWinlose ==
  /\ event.op = "onClickHandlerNewGame"
  /\ event.pc = "setWinlose"
  /\ event' = [event EXCEPT !.queue = Append(@, Update("winlose", "")),
                            !.pc = "setGameData"]
  /\ UNCHANGED <<components, quizData, gameData, answer, winlose, thrown>>

\* const rand = Random(allData.length);
\* setGameData({ Q: allData[rand].Q, A: allData[rand].A })
newGameSetGameData(draw) ==
  LET rand == Random(Len(allData), draw)
      item == ElementAt(rand)
  IN  /\ event.op = "onClickHandlerNewGame"
      /\ event.pc = "setGameData"
      /\ IF item.type = "object"
         THEN /\ event' = [event EXCEPT
                             !.queue = Append(@, Update("gameData",
                                         [Q |-> item.value.Q,
                                          A |-> item.value.A])),
                             !.pc = "render"]
              /\ thrown' = ""
         ELSE /\ event' = [event EXCEPT !.pc = "render"]
              /\ thrown' = "TypeError"
      /\ UNCHANGED <<components, quizData, gameData, answer, winlose>>

\* an option is picked: handleAnswerChange(e) is entered
changeAnswer(e) ==
  /\ event.pc = "idle"
  /\ event' = [op |-> "handleAnswerChange", pc |-> "setAnswer",
               queue |-> <<>>, before |-> Cells, e |-> e]
  /\ thrown' = ""
  /\ UNCHANGED <<components, quizData, gameData, answer, winlose>>

\* setAnswer(e.value); answerLet = e.value
selectSetAnswer ==
  /\ event.op = "handleAnswerChange"
  /\ event.pc = "setAnswer"
  /\ event' = [event EXCEPT
                 !.queue = Append(@, Update("answer", event.e.value)),
                 !.pc = "setWinlose"]
  /\ UNCHANGED <<components, quizData, gameData, answer, winlose, thrown>>

\* setWinlose("- you " + winLoseCalc(answerLet)); winLoseCalc reads the
\* gameData of the render the handler was created in
selectSetWinlose ==
  /\ event.op = "handleAnswerChange"
  /\ event.pc = "setWinlose"
  /\ event' = [event EXCEPT
                 !.queue = Append(@, Update("winlose",
                             "- you " \o ToStringJS(winLoseCalc(event.e.value)))),
                 !.pc = "render"]
  /\ UNCHANGED <<components, quizData, gameData, answer, winlose, thrown>>

\* the handler has returned: React renders App again with the queued updates
render ==
  LET cells == ApplyUpdates(Cells, event.queue)
  IN  /\ event.pc = "render"
      /\ gameData' = cells.gameData
      /\ answer' = cells.answer
      /\ winlose' = cells.winlose
      /\ event' = [event EXCEPT !.pc = "idle"]
      /\ UNCHANGED <<components, quizData, thrown>>

NextSteps ==
  \/ clickNewGame
  \/ newGameSetAnswer
  \/ newGameSetWinlose
  \/ \E draw \in Draws : newGameSetGameData(draw)
  \/ \E e \in Options : changeAnswer(e)
  \/ selectSetAnswer
  \/ selectSetWinlose
  \/ render

SpecSteps == InitSteps /\ [][NextSteps]_vars

-----------------------------------------------------------------------------
(* The arrays of a call of sortedListAnswers.  Array.prototype.sort        *)
(* reorders the array it is called on; map and the spread make new arrays. *)

\* sortedListAnswers sorting quizData itself before mapping it:
\*   quizData.sort((a, b) => (a.A > b.A ? 1 : -1)).map(...)
sortedListAnswersArrays_SortsQuizData(corpus) ==
  LET keyed == [i \in 1..Len(corpus) |->
                  [value |-> corpus[i].A, Q |-> corpus[i].Q]]
      sorted == sort(keyed)
      inPlace == [i \in 1..Len(corpus) |->
                    [Q |-> sorted[i].Q, A |-> sorted[i].value]]
      list == [i \in 1..Len(corpus) |->
                 [value |-> inPlace[i].A, label |-> inPlace[i].A]]
  IN  [quizData |-> inPlace, list |-> list, copy |-> list]

\* the arrays once sortedListAnswers() has returned: quizData as map left it,
\* list as the spread left it, and the copy, sorted in place and returned
sortedListAnswersArrays(corpus) ==
  LET list == [i \in 1..Len(corpus) |->
                 [value |-> corpus[i].A, label |-> corpus[i].A]]
  IN  [quizData |-> corpus, list |-> list, copy |-> sort(list)]

\* App is rendered:  const answerData = sortedListAnswers()
renderAnswerData ==
  LET arrays == sortedListAnswersArrays(quizData)
  IN  /\ quizData' = arrays.quizData
      /\ event' = [op |-> "sortedListAnswers", corpus |-> quizData,
                   result |-> arrays.copy, before |-> Cells]
      /\ UNCHANGED <<components, gameData, answer, winlose, thrown>>

NextArrays ==
  \/ \E draw \in Draws : onClickHandlerNewGame(draw)
  \/ \E e \in Options : handleAnswerChange(e)
  \/ renderAnswerData

InitArrays ==
  /\ componentsMounted
  /\ quizData \in Corpora \ {quizDataKiwi}
  /\ gameData = Start
  /\ answer = ""
  /\ winlose = ""
  /\ thrown = ""
  /\ event = [op |-> "mount"]

SpecArrays == InitArrays /\ [][NextArrays]_vars

-----------------------------------------------------------------------------
(* A dropdown that may forward no option to onChange                       *)

\* what the dropdown hands to onChange: an option object, or undefined or
\* null when the choice made matches no option
Forwarded ==
  {[type |-> "object", value |-> e] : e \in Options} \cup {undefined, null}

\* handleAnswerChange reading the value with e?.value, which evaluates the
\* missing option as a choice that is no answer
handleAnswerChangeOn_OptionalChaining(arg) ==
  IF arg.type = "object"
  THEN handleAnswerChange(arg.value)
  ELSE /\ answer' = ""
       /\ winlose' = "- you lose"
       /\ thrown' = ""
       /\ event' = [op |-> "handleAnswerChange", e |-> arg, before |-> Cells]
       /\ UNCHANGED <<components, quizData, gameData>>

\* handleAnswerChange(e) on whatever was forwarded: e.value throws a
\* TypeError on undefined and on null, in the first statement of the handler,
\* before any setter is called
handleAnswerChangeOn(arg) ==
  IF arg.type = "object"
  THEN handleAnswerChange(arg.value)
  ELSE /\ thrown' = "TypeError"
       /\ event' = [op |-> "handleAnswerChange", e |-> arg, before |-> Cells]
       /\ UNCHANGED <<components, quizData, gameData, answer, winlose>>

NextForwarded ==
  \/ \E draw \in Draws : onClickHandlerNewGame(draw)
  \/ \E arg \in Forwarded : handleAnswerChangeOn(arg)

SpecForwarded == Init /\ [][NextForwarded]_vars

-----------------------------------------------------------------------------
(* Timer (MockingAndAdvanced.test.js).  A click is handled, rendered and   *)
(* its effect run before anything else happens: the effect of a render     *)
(* with isRunning sets the interval, its cleanup clears it.  interval is   *)
(* null or the ticks elapsed since it was set or last fired.  The onTick    *)
(* prop is left out: it writes no state.                                   *)

\* stop whose render leaves the interval set
stop_KeepsInterval ==
  /\ timer.isRunning
  /\ timer' = [timer EXCEPT !.isRunning = FALSE]
  /\ event' = [op |-> "stop", before |-> timer]
  /\ UNCHANGED <<app, contactForm, authProvider, todoList>>

\* Start is clicked (the button is disabled while running):
\*   setIsRunning(true); the effect then calls setInterval(..., 1000)
start ==
  /\ ~timer.isRunning
  /\ timer' = [timer EXCEPT !.isRunning = TRUE, !.interval = [elapsed |-> 0]]
  /\ event' = [op |-> "start", before |-> timer]
  /\ UNCHANGED <<app, contactForm, authProvider, todoList>>

\* Stop is clicked (the button is disabled while not running):
\*   setIsRunning(false); the cleanup of the effect calls clearInterval
stop ==
  /\ timer.isRunning
  /\ timer' = [timer EXCEPT !.isRunning = FALSE, !.interval = null]
  /\ event' = [op |-> "stop", before |-> timer]
  /\ UNCHANGED <<app, contactForm, authProvider, todoList>>

\* Reset is clicked:  setSeconds(0); setIsRunning(false)
\* the effect is run again, and the interval cleared, if isRunning changed
reset ==
  /\ timer' = [timer EXCEPT !.seconds = 0, !.isRunning = FALSE,
                            !.interval = null]
  /\ event' = [op |-> "reset", before |-> timer]
  /\ UNCHANGED <<app, contactForm, authProvider, todoList>>

\* one tick of the clock goes by with no click; an interval that is set and
\* has reached its 1000 ms fires:  setSeconds(prev => prev + 1)
elapse ==
  /\ timer.seconds < MaxSeconds
  /\ timer' =
       IF timer.interval = null
       THEN timer
       ELSE IF timer.interval.elapsed + 1 = TicksPerSecond
            THEN [timer EXCEPT !.seconds = @ + 1,
                               !.interval = [elapsed |-> 0]]
            ELSE [timer EXCEPT !.interval = [elapsed |-> @.elapsed + 1]]
  /\ event' = [op |-> "elapse", before |-> timer]
  /\ UNCHANGED <<app, contactForm, authProvider, todoList>>

\* the suite renders Timer alone
InitTimer == Init /\ quizData = quizDataKiwi

NextTimer == start \/ stop \/ reset \/ elapse

SpecTimer == InitTimer /\ [][NextTimer]_vars

-----------------------------------------------------------------------------
(* ContactForm (the form suite).  The inputs stay editable while a         *)
(* submission awaits its timeout; only the submit button is disabled, and  *)
(* with it the submission of the form by the Enter key.                    *)

\* the character of s at position i, as a string
Char(s, i) == SubSeq(s, i, i)

\* the characters \s matches and trim() removes, of those the model types
IsSpace(c) == c \in {" ", "\t", "\n"}

RECURSIVE trim(_)
\* String.prototype.trim
trim(s) ==
  IF s = "" THEN ""
  ELSE IF IsSpace(Char(s, 1)) THEN trim(SubSeq(s, 2, Len(s)))
  ELSE IF IsSpace(Char(s, Len(s))) THEN trim(SubSeq(s, 1, Len(s) - 1))
  ELSE s

\* /\S+@\S+\.\S+/.test(s): somewhere in s an "@" with a non-space before it,
\* then non-spaces up to a "." that has one before it and one after it
EmailPattern(s) ==
  \E i \in 2..Len(s), j \in 4..(Len(s) - 1) :
    /\ Char(s, i) = "@"
    /\ ~IsSpace(Char(s, i - 1))
    /\ j > i + 1
    /\ Char(s, j) = "."
    /\ \A k \in (i + 1)..(j - 1) : ~IsSpace(Char(s, k))
    /\ ~IsSpace(Char(s, j + 1))

\* what is typed into the three text inputs
Names == {"", " ", "Jo"}

Emails == {"", "a", "a@b.c", "a @b.c", " a@b. "}

Messages == {"", "\n", "Hi"}

\* validate without the test of the message
validate_SkipsMessage(formData) ==
  [name |-> IF trim(formData.name) = "" THEN "Name is required" ELSE "",
   email |-> IF trim(formData.email) = "" THEN "Email is required"
             ELSE IF ~EmailPattern(formData.email) THEN "Email is invalid"
             ELSE "",
   message |-> "",
   submit |-> ""]

\* validate(): newErrors, a key that was not set reading ""
validate(formData) ==
  [name |-> IF trim(formData.name) = "" THEN "Name is required" ELSE "",
   email |-> IF trim(formData.email) = "" THEN "Email is required"
             ELSE IF ~EmailPattern(formData.email) THEN "Email is invalid"
             ELSE "",
   message |-> IF trim(formData.message) = "" THEN "Message is required"
               ELSE "",
   submit |-> ""]

\* handleChange(e) on the input called name: the field is set and the error
\* of the field, if one is shown, is cleared
handleChange(name, value) ==
  /\ contactForm' =
       [contactForm EXCEPT
          !.formData[name] = value,
          !.errors = IF name \in DOMAIN @ THEN [@ EXCEPT ![name] = ""] ELSE @]
  /\ event' = [op |-> "handleChange", name |-> name, before |-> contactForm]
  /\ UNCHANGED <<app, timer, authProvider, todoList>>

\* handleSubmit(e) up to its await (the button is disabled while submitting)
handleSubmit ==
  LET newErrors == validate(contactForm.formData)
  IN  /\ ~contactForm.isSubmitting
      /\ contactForm' =
           IF newErrors # NoErrors
           THEN [contactForm EXCEPT !.errors = newErrors]
           ELSE [contactForm EXCEPT
                   !.isSubmitting = TRUE,
                   !.awaiting = Append(@, contactForm.formData)]
      /\ event' = [op |-> "handleSubmit", before |-> contactForm]
      /\ UNCHANGED <<app, timer, authProvider, todoList>>

\* the timeout of a submission has run out: handleSubmit goes on after its
\* await with the formData of the render it was called in; the onSubmit prop
\* returns or throws
submitted(throws) ==
  /\ contactForm.awaiting # <<>>
  /\ Len(contactForm.onSubmit) < MaxSubmissions
  /\ contactForm' =
       [contactForm EXCEPT
          !.onSubmit = Append(@, Head(contactForm.awaiting)),
          !.awaiting = Tail(@),
          !.formData = IF throws THEN @ ELSE EmptyForm,
          !.errors = IF throws
                     THEN [name |-> "", email |-> "", message |-> "",
                           submit |-> "Failed to submit form"]
                     ELSE NoErrors,
          !.isSubmitting = FALSE]
  /\ event' = [op |-> "submitted", throws |-> throws, before |-> contactForm]
  /\ UNCHANGED <<app, timer, authProvider, todoList>>

\* the suite renders ContactForm alone
InitContactForm == Init /\ quizData = quizDataKiwi

NextContactForm ==
  \/ \E value \in Names : handleChange("name", value)
  \/ \E value \in Emails : handleChange("email", value)
  \/ \E value \in Messages : handleChange("message", value)
  \/ \E value \in BOOLEAN : handleChange("newsletter", value)
  \/ handleSubmit
  \/ \E throws \in BOOLEAN : submitted(throws)

SpecContactForm == InitContactForm /\ [][NextContactForm]_vars

-----------------------------------------------------------------------------
(* AuthProvider with UserProfile and LoginForm (ContextAndProviders.test). *)
(* UserProfile shows LoginForm while user is null, so the form, with its   *)
(* fields and its error, is mounted anew after each logout.                *)

\* what is typed into the two inputs of LoginForm
LoginEmails == {"", "test@example.com", "wrong@example.com"}

Passwords == {"", "password", "wrongpassword"}

\* the user setUser is called with on a successful login
TestUser(email) == [id |-> 1, email |-> email, name |-> "Test User"]

\* onChange of the email input:  setEmail(e.target.value)
setEmail(value) ==
  /\ authProvider.user = null
  /\ authProvider' = [authProvider EXCEPT !.email = value]
  /\ event' = [op |-> "setEmail", before |-> authProvider]
  /\ UNCHANGED <<app, timer, contactForm, todoList>>

\* onChange of the password input:  setPassword(e.target.value)
setPassword(value) ==
  /\ authProvider.user = null
  /\ authProvider' = [authProvider EXCEPT !.password = value]
  /\ event' = [op |-> "setPassword", before |-> authProvider]
  /\ UNCHANGED <<app, timer, contactForm, todoList>>

\* a submit that calls login without setLoading(true)
loginFormSubmit_NoLoading ==
  /\ authProvider.user = null
  /\ ~authProvider.loading
  /\ authProvider' =
       [authProvider EXCEPT
          !.error = "",
          !.awaiting = Append(@, [email |-> authProvider.email,
                                  password |-> authProvider.password])]
  /\ event' = [op |-> "loginFormSubmit", before |-> authProvider]
  /\ UNCHANGED <<app, timer, contactForm, todoList>>

\* LoginForm.handleSubmit and login(email, password) up to its await; the
\* Login button is disabled while loading
loginFormSubmit ==
  /\ authProvider.user = null
  /\ ~authProvider.loading
  /\ authProvider' =
       [authProvider EXCEPT
          !.error = "",
          !.loading = TRUE,
          !.awaiting = Append(@, [email |-> authProvider.email,
                                  password |-> authProvider.password])]
  /\ event' = [op |-> "loginFormSubmit", before |-> authProvider]
  /\ UNCHANGED <<app, timer, contactForm, todoList>>

\* the timeout of a login has run out: login goes on after its await, then
\* handleSubmit after its own.  On success LoginForm is unmounted.
loginResolved ==
  LET credentials == Head(authProvider.awaiting)
      success == /\ credentials.email = "test@example.com"
                 /\ credentials.password = "password"
  IN  /\ authProvider.awaiting # <<>>
      /\ authProvider' =
           IF success
           THEN [authProvider EXCEPT
                   !.user = TestUser(credentials.email),
                   !.loading = FALSE,
                   !.awaiting = Tail(@),
                   !.email = "", !.password = "", !.error = ""]
           ELSE [authProvider EXCEPT
                   !.loading = FALSE,
                   !.awaiting = Tail(@),
                   !.error = "Invalid credentials"]
      /\ event' = [op |-> "loginResolved", credentials |-> credentials,
                   before |-> authProvider]
      /\ UNCHANGED <<app, timer, contactForm, todoList>>

\* Logout is clicked in UserProfile:  setUser(null)
logout ==
  /\ authProvider.user # null
  /\ authProvider' = [authProvider EXCEPT !.user = null]
  /\ event' = [op |-> "logout", before |-> authProvider]
  /\ UNCHANGED <<app, timer, contactForm, todoList>>

\* the suite renders UserProfile inside AuthProvider, without the quiz
InitAuthProvider == Init /\ quizData = quizDataKiwi

NextAuthProvider ==
  \/ \E value \in LoginEmails : setEmail(value)
  \/ \E value \in Passwords : setPassword(value)
  \/ loginFormSubmit
  \/ loginResolved
  \/ logout

SpecAuthProvider == InitAuthProvider /\ [][NextAuthProvider]_vars

-----------------------------------------------------------------------------
(* TodoList (the form suite).  now is the millisecond Date.now() returns;  *)
(* any number of events may be handled within one millisecond.             *)

\* what is typed into the input
TodoInputs == {"", "  ", "Buy milk", " Walk "}

\* onChange of the input:  setInputValue(e.target.value)
setInputValue(value) ==
  /\ todoList' = [todoList EXCEPT !.inputValue = value]
  /\ event' = [op |-> "setInputValue", before |-> todoList]
  /\ UNCHANGED <<app, timer, contactForm, authProvider>>

\* addTodo testing inputValue itself, not inputValue.trim()
addTodo_TestsUntrimmed ==
  /\ Len(todoList.todos) < MaxTodos
  /\ todoList' =
       IF todoList.inputValue # ""
       THEN [todoList EXCEPT
               !.todos = Append(@, [id |-> todoList.now,
                                    text |-> trim(todoList.inputValue),
                                    completed |-> FALSE]),
               !.inputValue = ""]
       ELSE todoList
  /\ event' = [op |-> "addTodo", before |-> todoList]
  /\ UNCHANGED <<app, timer, contactForm, authProvider>>

\* addTodo(), by the button or the Enter key
addTodo ==
  /\ Len(todoList.todos) < MaxTodos
  /\ todoList' =
       IF trim(todoList.inputValue) # ""
       THEN [todoList EXCEPT
               !.todos = Append(@, [id |-> todoList.now,
                                    text |-> trim(todoList.inputValue),
                                    completed |-> FALSE]),
               !.inputValue = ""]
       ELSE todoList
  /\ event' = [op |-> "addTodo", before |-> todoList]
  /\ UNCHANGED <<app, timer, contactForm, authProvider>>

\* toggleTodo(id), by the checkbox of the todo at position i
toggleTodo(i) ==
  LET id == todoList.todos[i].id
  IN  /\ todoList' =
           [todoList EXCEPT
              !.todos = [k \in 1..Len(@) |->
                           IF @[k].id = id
                           THEN [@[k] EXCEPT !.completed = ~@]
                           ELSE @[k]]]
      /\ event' = [op |-> "toggleTodo", i |-> i, before |-> todoList]
      /\ UNCHANGED <<app, timer, contactForm, authProvider>>

\* deleteTodo(id), by the Delete button of the todo at position i
deleteTodo(i) ==
  LET id == todoList.todos[i].id
  IN  /\ todoList' =
           [todoList EXCEPT !.todos = SelectSeq(@, LAMBDA todo : todo.id # id)]
      /\ event' = [op |-> "deleteTodo", i |-> i, before |-> todoList]
      /\ UNCHANGED <<app, timer, contactForm, authProvider>>

\* a millisecond goes by
millisecond ==
  /\ todoList.now < MaxNow
  /\ todoList' = [todoList EXCEPT !.now = @ + 1]
  /\ event' = [op |-> "millisecond", before |-> todoList]
  /\ UNCHANGED <<app, timer, contactForm, authProvider>>

\* the suite renders TodoList alone
InitTodoList == Init /\ quizData = quizDataKiwi

NextTodoList ==
  \/ \E value \in TodoInputs : setInputValue(value)
  \/ addTodo
  \/ \E i \in 1..Len(todoList.todos) : toggleTodo(i)
  \/ \E i \in 1..Len(todoList.todos) : deleteTodo(i)
  \/ millisecond

SpecTodoList == InitTodoList /\ [][NextTodoList]_vars

-----------------------------------------------------------------------------
(* sortedListAnswers called on its own, as GameUtilities.test.js does      *)

\* answers for the corpora made up for the sort: two pairs that differ in the
\* case of the first letter or by a suffix, and a number
AnswerPool == {"Auckland", "auckland", "Kiwi", "Kiwi(s)", "16"}

\* the corpora sortedListAnswers is run on
SortCorpora ==
  {quizDataKiwi}
    \cup UNION {
           {[i \in 1..n |-> [Q |-> "Question " \o ToString(i), A |-> as[i]]] :
              as \in [1..n -> AnswerPool]} : n \in 0..MaxSortLength}

InitSort ==
  /\ componentsMounted
  /\ quizData \in SortCorpora
  /\ gameData = Start
  /\ answer = ""
  /\ winlose = ""
  /\ thrown = ""
  /\ event = [op |-> "mount"]

\* sortedListAnswers() is called outside App and its result kept
sortedListAnswersCall ==
  /\ event' = [op |-> "sortedListAnswers",
               result |-> sortedListAnswers(quizData)]
  /\ UNCHANGED <<components, quizData, gameData, answer, winlose, thrown>>

NextSort == sortedListAnswersCall

SpecSort == InitSort /\ [][NextSort]_vars

-----------------------------------------------------------------------------
(* sortedListAnswers on engines that differ in the order in which they     *)
(* hand two elements to the comparator.  The comparator answers -1 both    *)
(* ways for equal values, so the engines differ in where they put ties.    *)

RECURSIVE InsertBefore(_, _)
\* x put into the sorted sequence s by an engine that asks comparator(x, y):
\* x goes before every element it is not above
InsertBefore(s, x) ==
  IF s = <<>> THEN <<x>>
  ELSE IF compare(x, s[Len(s)]) < 0
       THEN Append(InsertBefore(SubSeq(s, 1, Len(s) - 1), x), s[Len(s)])
       ELSE Append(s, x)

RECURSIVE sortBefore(_)
\* Array.prototype.sort on such an engine
sortBefore(list) ==
  IF list = <<>> THEN <<>>
  ELSE InsertBefore(sortBefore(SubSeq(list, 1, Len(list) - 1)),
                    list[Len(list)])

\* the two orders of the comparator's arguments
SortEngines == {"comparator(y, x)", "comparator(x, y)"}

\* sortedListAnswers labelling each option with the question, on either engine
sortedListAnswersOn_LabelIsQuestion(corpus, engine) ==
  LET list == [i \in 1..Len(corpus) |->
                 [value |-> corpus[i].A, label |-> corpus[i].Q]]
  IN  IF engine = "comparator(y, x)" THEN sort(list) ELSE sortBefore(list)

\* sortedListAnswers() on either engine
sortedListAnswersOn(corpus, engine) ==
  LET list == [i \in 1..Len(corpus) |->
                 [value |-> corpus[i].A, label |-> corpus[i].A]]
  IN  IF engine = "comparator(y, x)" THEN sort(list) ELSE sortBefore(list)

\* one more call of sortedListAnswers(); the result of the first call is kept
sortedListAnswersAgain(engine) ==
  LET result == sortedListAnswersOn(quizData, engine)
  IN  /\ event' = [op |-> "sortedListAnswers",
                   engine |-> engine,
                   result |-> result,
                   first |-> IF event.op = "sortedListAnswers"
                             THEN event.first
                             ELSE [engine |-> engine, result |-> result]]
      /\ UNCHANGED <<components, quizData, gameData, answer, winlose, thrown>>

NextEngines == \E engine \in SortEngines : sortedListAnswersAgain(engine)

SpecEngines == InitSort /\ [][NextEngines]_vars

-----------------------------------------------------------------------------
(* The properties                                                          *)

\* the two values of the result, as the winlose cell holds them
Win == "- you win"

Lose == "- you lose"

\* the last event was a click on the button
ByNewGame == event.op = "onClickHandlerNewGame"

\* the last event was a pick in the dropdown
BySelect == event.op = "handleAnswerChange"

\* C1 (reset law): whatever the state before it, a click on the button leaves
\* the selected answer empty and the result empty, and no message is shown.
ResetLaw ==
  ByNewGame => answer = "" /\ winlose = "" /\ message = ""

\* a click that followed a won question, with nothing of it left
ResetLawWitness ==
  /\ ByNewGame
  /\ event.before.answer # ""
  /\ event.before.winlose = Win
  /\ event.before.gameData # Start
  /\ answer = "" /\ winlose = "" /\ message = ""

\* C2 (evaluation): a pick made while a question of the corpus is on display
\* makes the picked value the selected answer, and the result is win exactly
\* when the value equals the answer of that question and lose otherwise.
SelectEvaluates ==
  (BySelect /\ event.before.gameData # Start) =>
    /\ answer = event.e.value
    /\ winlose \in {Win, Lose}
    /\ winlose = Win <=> event.e.value = event.before.gameData.A
    /\ winlose = Lose <=> event.e.value # event.before.gameData.A

\* the right answer of the displayed question was picked, and it wins
SelectEvaluatesWitness ==
  /\ BySelect
  /\ event.before.gameData # Start
  /\ event.before.answer = ""
  /\ event.e.value = event.before.gameData.A
  /\ answer = event.e.value
  /\ winlose = Win

\* C3 (reselection): a pick made when an answer was already selected replaces
\* the selected answer and the result by those of the new pick alone, and
\* leaves the question as it was.
ReselectionOverwrites ==
  (BySelect /\ event.before.answer # "") =>
    /\ answer = event.e.value
    /\ winlose = IF event.e.value = gameData.A THEN Win ELSE Lose
    /\ gameData = event.before.gameData

\* a lost question won by a second pick, the question unchanged
ReselectionOverwritesWitness ==
  /\ BySelect
  /\ event.before.winlose = Lose
  /\ event.before.answer # answer
  /\ winlose = Win
  /\ gameData = event.before.gameData
  /\ gameData # Start

\* C4 (initial state): before any event the question and the correct answer
\* are both "Start", no answer is selected, the result is empty and no
\* message is shown.
InitialState ==
  event.op = "mount" =>
    /\ gameData.Q = "Start" /\ gameData.A = "Start"
    /\ question = "Start"
    /\ answer = "" /\ winlose = "" /\ message = ""

\* the first render
InitialStateWitness ==
  event.op = "mount" /\ question = "Start" /\ message = "" /\ answer = ""

\* C5 (pair consistency): the question and the correct answer on display are
\* the Start pair or the two fields of one entry of the corpus; a click on
\* the button shows the entry at the index it drew, which is an index of the
\* corpus.
PairConsistency ==
  /\ gameData = Start \/ \E i \in 1..Len(quizData) : gameData = quizData[i]
  /\ ByNewGame =>
       /\ event.rand \in 0..(Len(quizData) - 1)
       /\ thrown = ""
       /\ gameData = quizData[event.rand + 1]

\* a click that drew an index other than 0 of a corpus of several entries
PairConsistencyWitness ==
  /\ ByNewGame
  /\ event.rand > 0
  /\ gameData = quizData[event.rand + 1]
  /\ gameData # quizData[1]

\* C6 (frame): a pick in the dropdown leaves the question and the correct
\* answer as they were; they change only by a click on the button.
SelectKeepsQuestion ==
  [][/\ event'.op = "handleAnswerChange" => gameData' = gameData
     /\ gameData' # gameData => event'.op = "onClickHandlerNewGame"]_vars

\* a pick made on a question of the corpus, which is still on display
SelectKeepsQuestionWitness ==
  /\ BySelect
  /\ gameData # Start
  /\ gameData = event.before.gameData
  /\ question = event.before.gameData.Q

\* C7 (display text): with an answer selected the message is "You selected ",
\* the answer and "- you win" or "- you lose" according to the result, with
\* no space before the hyphen; with no answer selected the message is empty.
DisplayText ==
  IF answer # ""
  THEN \/ winlose = Win /\ message = "You selected " \o answer \o "- you win"
       \/ winlose = Lose /\ message = "You selected " \o answer \o "- you lose"
  ELSE message = ""

\* the message GameMechanics.test.js expects
DisplayTextWitness ==
  /\ BySelect
  /\ answer = "4"
  /\ winlose = Win
  /\ message = "You selected 4- you win"

\* C8 (range): for every length 1 .. MaxLength and every draw, Random returns
\* an integer from 0 to length - 1.
RandomInRange ==
  event.op = "Random" =>
    /\ event.rand \in Int
    /\ 0 <= event.rand /\ event.rand <= event.length - 1

\* the largest draw on the length of the shipped corpus gives the last index
RandomInRangeWitness ==
  /\ event.op = "Random"
  /\ event.length = Len(quizDataKiwi)
  /\ event.draw = RandomResolution - 1
  /\ event.rand = event.length - 1

\* a click on the button whose draw gives index i - 1 and which puts entry i
\* of the corpus on display
NewGameShows(i) ==
  \E draw \in Draws :
    /\ Random(Len(allData), draw) = i - 1
    /\ onClickHandlerNewGame(draw)
    /\ gameData' = quizData[i]

\* C9 (no exclusion, no memory): in every state, for every entry of the
\* corpus, the one on display included, some draw gives its index and a click
\* on the button with that draw puts the entry on display.
EveryEntryPossible ==
  \A i \in 1..Len(quizData) : ENABLED NewGameShows(i)

\* a click that showed again the question already on display, of a corpus of
\* several entries
EveryEntryPossibleWitness ==
  /\ ByNewGame
  /\ Len(quizData) > 1
  /\ event.before.gameData # Start
  /\ gameData = event.before.gameData

\* C10 (length 1): Random(1) is 0 whatever the draw.
RandomOfOne ==
  (event.op = "Random" /\ event.length = 1) => event.rand = 0

\* the largest draw on length 1
RandomOfOneWitness ==
  /\ event.op = "Random"
  /\ event.length = 1
  /\ event.draw = RandomResolution - 1
  /\ event.rand = 0

\* the last event was a call of sortedListAnswers on its own
BySort == event.op = "sortedListAnswers"

\* the JavaScript expression  a <= b  on two strings
StringLessOrEqual(a, b) == ~StringGreater(a, b)

\* the number of places of sequence s holding an element whose field f is v
Count(s, f, v) == Cardinality({i \in 1..Len(s) : s[i][f] = v})

\* C11 (sorted): in the list sortedListAnswers returns, every option's value
\* is <= the value of the option after it, for every corpus, also one with
\* repeated answers.
AnswersSorted ==
  BySort =>
    \A i \in 1..(Len(event.result) - 1) :
      StringLessOrEqual(event.result[i].value, event.result[i + 1].value)

\* the shipped corpus, not in order as written, comes out with "16" third,
\* "Wellington" last and the two "Auckland" side by side
AnswersSortedWitness ==
  /\ BySort
  /\ quizData = quizDataKiwi
  /\ quizData[1].A = "Wellington"
  /\ event.result[1].value = "(+ Bonus point for his nationality) Abel Tasman, Dutch"
  /\ event.result[3].value = "16"
  /\ event.result[11].value = "Auckland"
  /\ event.result[12].value = "Auckland"
  /\ event.result[28].value = "Wellington"

\* C12 (coverage): for every entry of the corpus the list holds an option
\* whose value is the answer of that entry.
AnswersCovered ==
  BySort =>
    \A i \in 1..Len(quizData) :
      \E j \in 1..Len(event.result) : event.result[j].value = quizData[i].A

\* a corpus of three different answers, whose last entry sorts first
AnswersCoveredWitness ==
  /\ BySort
  /\ Len(quizData) = 3
  /\ quizData[1].A = "auckland"
  /\ quizData[2].A = "Kiwi"
  /\ quizData[3].A = "16"
  /\ event.result[1].value = "16"
  /\ \A i \in 1..3 : \E j \in 1..3 : event.result[j].value = quizData[i].A

\* C13 (no deduplication): the list has one option for each entry of the
\* corpus: it is as long as the corpus, and every string is the value of as
\* many options as it is the answer of entries.
AnswersNotDeduplicated ==
  BySort =>
    /\ Len(event.result) = Len(quizData)
    /\ \A i \in 1..Len(quizData) :
         Count(event.result, "value", quizData[i].A)
           = Count(quizData, "A", quizData[i].A)

\* the shipped corpus has "Auckland" twice, and so has the list
AnswersNotDeduplicatedWitness ==
  /\ BySort
  /\ quizData = quizDataKiwi
  /\ Count(quizData, "A", "Auckland") = 2
  /\ Count(event.result, "value", "Auckland") = 2
  /\ Len(event.result) = 28

\* C14 (options are answers): every option of the list has its value equal
\* to its label, and that string is the answer of an entry of the corpus.
OptionsAreAnswers ==
  BySort =>
    \A j \in 1..Len(event.result) :
      /\ event.result[j].value = event.result[j].label
      /\ \E i \in 1..Len(quizData) : quizData[i].A = event.result[j].value

\* a list of two options, each with its label equal to its value
OptionsAreAnswersWitness ==
  /\ BySort
  /\ Len(event.result) = 2
  /\ event.result[1] = [value |-> "Kiwi", label |-> "Kiwi"]
  /\ event.result[2] = [value |-> "Kiwi(s)", label |-> "Kiwi(s)"]

\* C15 (empty-corpus guard): on a corpus of no entry a click on the button
\* reports an error, and does so without Random returning an index and the
\* handler reading the entry at it, which is undefined.
EmptyCorpusGuard ==
  (ByNewGame /\ Len(quizData) = 0) =>
    /\ thrown # ""
    /\ ~(event.rand \in Int /\ ElementAt(event.rand).type = "undefined")

\* C16 (fail fast): on a corpus of no entry the failure is that of the first
\* render, before any event; no handler fails later.
FailFast ==
  Len(quizData) = 0 =>
    /\ event.op = "mount" => thrown # ""
    /\ event.op # "mount" => thrown = ""

\* C17 (totality of the selection): on a corpus that is not empty, whatever
\* the choice string, the literal "undefined" included, a selection completes
\* without error and leaves the result equal to win or to lose, never to a
\* third value.
SelectTotal ==
  (BySelect /\ Len(quizData) > 0) =>
    /\ thrown = ""
    /\ winlose \in {Win, Lose}

\* C18 (an empty choice never silently wins): a selection of the empty string
\* gives win only if the correct answer is itself empty; in the Idle state and
\* on every corpus whose answers are all non-empty no state has the result win
\* with an empty selected answer; and no message is shown for an empty
\* selected answer.
EmptyChoiceNeverWins ==
  /\ (BySelect /\ event.e.value = "" /\ winlose = Win) => gameData.A = ""
  /\ (gameData = Start \/ \A i \in 1..Len(quizData) : quizData[i].A # "")
       => ~(answer = "" /\ winlose = Win)
  /\ answer = "" => message = ""

\* the empty string was chosen in the Idle state: it loses against "Start"
\* and nothing is shown
EmptyChoiceNeverWinsWitness ==
  /\ BySelect
  /\ event.e.value = ""
  /\ event.before.gameData = Start
  /\ gameData = Start
  /\ answer = ""
  /\ winlose = Lose
  /\ message = ""

\* C19 (selection only once a question is shown): as long as the question
\* displayed is still the sentinel "Start", the selected answer and the result
\* are empty and no message is shown.
SelectOnlyAfterNewGame ==
  question = "Start" =>
    /\ answer = ""
    /\ winlose = ""
    /\ message = ""

\* an entry of the corpus is shown, unanswered, and nothing has failed
QuestionActive ==
  /\ thrown = ""
  /\ question # "Start"
  /\ \E i \in 1..Len(quizData) : gameData = quizData[i]
  /\ answer = ""
  /\ winlose = ""

\* a click on the button that leads to QuestionActive
NewGameToQuestionActive ==
  /\ \E draw \in Draws : onClickHandlerNewGame(draw)
  /\ QuestionActive'

\* C20 (no terminal state): on a corpus that is not empty, in every reachable
\* state a click on the button is possible and leads to QuestionActive, and
\* every click has led there: a fresh unanswered question is always one step
\* away.
NoTerminalState ==
  Len(quizData) > 0 =>
    /\ ENABLED NewGameToQuestionActive
    /\ ByNewGame => QuestionActive

\* a click made after an answer to a question was selected and evaluated
\* shows a fresh unanswered question
NoTerminalStateWitness ==
  /\ ByNewGame
  /\ QuestionActive
  /\ event.before.gameData # Start
  /\ event.before.answer # ""
  /\ event.before.winlose \in {Win, Lose}

\* C21 (atomic reset): the three updates of a click on the button take
\* effect as one step.  No rendered state shows a newly picked question with
\* the selected answer or the result of the previous one; the cells of the
\* page change only in the render that follows the handler, and a click's
\* render leaves the answer and the result empty and an entry of the corpus
\* on display; and no other handler is entered before that render.
AtomicReset ==
  /\ []((event.op = "onClickHandlerNewGame"
           /\ gameData # event.before.gameData)
          => (answer = "" /\ winlose = ""))
  /\ [][Cells' # Cells =>
          /\ event.pc = "render"
          /\ event'.pc = "idle"
          /\ event.op = "onClickHandlerNewGame" =>
               /\ answer' = ""
               /\ winlose' = ""
               /\ \E i \in 1..Len(quizData) : gameData' = quizData[i]]_vars
  /\ [][event.pc # "idle" =>
          /\ event'.op = event.op
          /\ event'.before = event.before]_vars

\* a click made on an answered question has been rendered: another question
\* is shown, with no answer and no result
AtomicResetWitness ==
  /\ event.op = "onClickHandlerNewGame"
  /\ event.pc = "idle"
  /\ Len(event.queue) = 3
  /\ event.before.gameData # Start
  /\ event.before.answer # ""
  /\ event.before.winlose \in {Win, Lose}
  /\ gameData # event.before.gameData
  /\ answer = ""
  /\ winlose = ""

\* no question of the corpus is the text of the first render
NoQuestionIsStart == \A i \in 1..Len(quizData) : quizData[i].Q # "Start"

\* C22 (Idle is never re-entered): on a corpus none of whose questions is the
\* text "Start", every click on the button shows a question of the corpus, and
\* once the question shown is not "Start" no click and no selection makes it
\* "Start" again: it stays a question of the corpus.
IdleNeverReentered ==
  /\ []((NoQuestionIsStart /\ ByNewGame) =>
          /\ question # "Start"
          /\ \E i \in 1..Len(quizData) : question = quizData[i].Q)
  /\ [][(NoQuestionIsStart /\ question # "Start") =>
          /\ question' # "Start"
          /\ \E i \in 1..Len(quizData) : question' = quizData[i].Q]_vars

\* a click made after a question was shown and answered: a question of the
\* corpus is on display, not "Start"
IdleNeverReenteredWitness ==
  /\ ByNewGame
  /\ event.before.gameData # Start
  /\ event.before.answer # ""
  /\ question # "Start"
  /\ \E i \in 1..Len(quizData) : question = quizData[i].Q

\* C23 (the corpus is never mutated): no step, be it a click, a selection or
\* a render calling sortedListAnswers, changes quizData; sortedListAnswers
\* returns the sorted list and leaves quizData as it was, in its original
\* order.
CorpusNeverMutated ==
  /\ [][quizData' = quizData]_vars
  /\ [](BySort =>
          /\ quizData = event.corpus
          /\ event.result = sortedListAnswers(event.corpus))

\* sortedListAnswers has returned a list in another order than that of the
\* corpus, which is still as it was
CorpusNeverMutatedWitness ==
  /\ BySort
  /\ quizData = event.corpus
  /\ \E i \in 1..Len(quizData) : event.result[i].value # quizData[i].A
  /\ event.before.gameData # Start

\* C24 (sortedListAnswers is deterministic): on a fixed corpus every call
\* returns the same sequence of (value, label) pairs as the first call,
\* whichever way the engine orders ties, and it is the list App offers.
AnswersDeterministic ==
  BySort =>
    /\ event.result = event.first.result
    /\ event.result = sortedListAnswers(quizData)

\* a corpus with the same answer twice, sorted a second time by an engine
\* that orders ties the other way: the two results are equal
AnswersDeterministicWitness ==
  /\ BySort
  /\ event.engine # event.first.engine
  /\ \E i, j \in 1..Len(quizData) : i # j /\ quizData[i].A = quizData[j].A
  /\ Len(event.result) = Len(quizData)
  /\ event.result = event.first.result

\* the number of draws, all equally likely, on which Random(length) is index
DrawsGiving(length, index) ==
  Cardinality({draw \in Draws : Random(length, draw) = index})

ResultConsistent ==
  winlose # "" =>
    /\ winlose = Win <=> answer = gameData.A
    /\ BySelect
    /\ event.before.gameData = gameData

\* after a losing selection the right answer of the same question is
\* selected: the result on display is win
ResultConsistentWitness ==
  /\ BySelect
  /\ gameData # Start
  /\ event.before.winlose = Lose
  /\ winlose = Win
  /\ answer = gameData.A

SelectWins(e) ==
  /\ e.value = gameData.A
  /\ handleAnswerChange(e)
  /\ winlose' = Win

\* C28 (every question is winnable): in every state reached by a click on the
\* button, the options given to the dropdown include one whose selection is
\* possible and yields the result win for the question on display.
EveryQuestionWinnable ==
  ByNewGame => \E e \in Options : ENABLED SelectWins(e)

\* the last entry of the shipped corpus is on display and its answer is among
\* the options
EveryQuestionWinnableWitness ==
  /\ ByNewGame
  /\ quizData = quizDataKiwi
  /\ gameData = quizDataKiwi[Len(quizDataKiwi)]
  /\ answer = ""
  /\ \E e \in Options : e.value = gameData.A /\ e.label = gameData.A

\* C29 (placeholder): the placeholder of the dropdown is "Select an Answer"
\* exactly when the selected answer is empty and is the selected answer
\* otherwise; it is "Select an Answer" at the first render and after every
\* click on the button.
PlaceholderText ==
  /\ (placeholder = "Select an Answer") <=> (answer = "")
  /\ answer # "" => placeholder = answer
  /\ event.op = "mount" => placeholder = "Select an Answer"
  /\ ByNewGame => placeholder = "Select an Answer"

\* an answer was selected and the placeholder showed it; the click that
\* followed has put "Select an Answer" back
PlaceholderTextWitness ==
  /\ ByNewGame
  /\ event.before.answer # ""
  /\ event.before.gameData # Start
  /\ answer = ""
  /\ placeholder = "Select an Answer"

\* the last event was an onChange to which no option was forwarded
ByNoOption == BySelect /\ DOMAIN event.e = {"type"}

\* C30 (a non-real selection does not change the game): when onChange is
\* called with undefined or null, the selected answer, the result, the
\* question and the correct answer all keep the values they had.
NoOptionKeepsGame ==
  ByNoOption =>
    /\ answer = event.before.answer
    /\ winlose = event.before.winlose
    /\ gameData = event.before.gameData

\* a question was answered, then onChange was called with undefined: the
\* answer and its result are still on display
NoOptionKeepsGameWitness ==
  /\ ByNoOption
  /\ event.e = undefined
  /\ gameData # Start
  /\ answer # ""
  /\ winlose = Win
  /\ Cells = event.before
  /\ thrown = "TypeError"

\* C36 (consistent comparator): for all options a and b handed to the
\* comparator of sortedListAnswers, comparator(a, b) = -comparator(b, a) and
\* comparator(a, a) = 0, two options of equal value included, and so the
\* sorted list is the same on every engine.
ComparatorConsistent ==
  BySort =>
    /\ \A i, j \in 1..Len(event.result) :
         /\ compare(event.result[i], event.result[j])
              = -compare(event.result[j], event.result[i])
         /\ compare(event.result[i], event.result[i]) = 0
    /\ event.result = event.first.result

\* the tick that went by completed a second of an interval of a running timer
SecondCompleted ==
  /\ event.op = "elapse"
  /\ event.before.isRunning
  /\ event.before.interval # null
  /\ event.before.interval.elapsed + 1 = TicksPerSecond

\* C31 (Timer): seconds goes up by one with each second that elapses while
\* the timer is running, and by nothing else; once stopped no interval is
\* left, so no amount of time changes seconds until Start is clicked again;
\* Stop and Start leave seconds as it was; Reset sets seconds to 0 and stops
\* the timer.
TimerCounts ==
  /\ event.op = "elapse" =>
       timer.seconds = event.before.seconds + (IF SecondCompleted THEN 1 ELSE 0)
  /\ (event.op = "elapse" /\ ~event.before.isRunning) => timer = event.before
  /\ ~timer.isRunning <=> timer.interval = null
  /\ event.op = "start" =>
       (timer.isRunning /\ timer.seconds = event.before.seconds)
  /\ event.op = "stop" =>
       (~timer.isRunning /\ timer.seconds = event.before.seconds)
  /\ event.op = "reset" => (timer.seconds = 0 /\ ~timer.isRunning)

\* the timer ran for two seconds and was stopped; time has gone by since and
\* seconds is still 2
TimerCountsWitness ==
  /\ event.op = "elapse"
  /\ ~event.before.isRunning
  /\ event.before.seconds = 2
  /\ timer.seconds = 2
  /\ timer.interval = null

\* the data passes validation: name, email and message are not blank and the
\* email matches the pattern
Valid(formData) ==
  /\ trim(formData.name) # ""
  /\ trim(formData.email) # ""
  /\ EmailPattern(formData.email)
  /\ trim(formData.message) # ""

\* C32 (ContactForm): every call of onSubmit was made with data that passes
\* validation; a submit attempt on data with an invalid field shows an error
\* message for each such field, makes no call of onSubmit, now or later, and
\* leaves the form data as it was.
FormValidated ==
  /\ \A i \in 1..Len(contactForm.onSubmit) : Valid(contactForm.onSubmit[i])
  /\ \A i \in 1..Len(contactForm.awaiting) : Valid(contactForm.awaiting[i])
  /\ (event.op = "handleSubmit" /\ ~Valid(event.before.formData)) =>
       /\ contactForm.formData = event.before.formData
       /\ contactForm.onSubmit = event.before.onSubmit
       /\ contactForm.awaiting = <<>>
       /\ ~contactForm.isSubmitting
       /\ trim(contactForm.formData.name) = ""
            <=> contactForm.errors.name = "Name is required"
       /\ trim(contactForm.formData.email) = ""
            <=> contactForm.errors.email = "Email is required"
       /\ (trim(contactForm.formData.email) # ""
             /\ ~EmailPattern(contactForm.formData.email))
            <=> contactForm.errors.email = "Email is invalid"
       /\ trim(contactForm.formData.message) = ""
            <=> contactForm.errors.message = "Message is required"

\* a form whose only fault is an email that does not match the pattern was
\* submitted: the one error is shown, nothing else has changed
FormValidatedWitness ==
  /\ event.op = "handleSubmit"
  /\ event.before.formData.name = "Jo"
  /\ event.before.formData.email = "a @b.c"
  /\ event.before.formData.message = "Hi"
  /\ contactForm.formData = event.before.formData
  /\ contactForm.errors.email = "Email is invalid"
  /\ contactForm.errors.name = ""
  /\ contactForm.onSubmit = <<>>
  /\ contactForm.awaiting = <<>>

\* the login that has just completed was made with the one accepted pair
RightCredentials ==
  /\ event.credentials.email = "test@example.com"
  /\ event.credentials.password = "password"

\* C33 (login): while a login is in flight loading is true and no further
\* login can be submitted, so at most one is in flight; when a login
\* completes loading is false, whether it succeeded or failed; user is set
\* only by a login with test@example.com / password, and after any other
\* login user is still null and the error is "Invalid credentials".
LoginOneAtATime ==
  /\ authProvider.awaiting # <<>> <=> authProvider.loading
  /\ authProvider.loading => ~ENABLED loginFormSubmit
  /\ Len(authProvider.awaiting) <= 1
  /\ authProvider.user # null =>
       authProvider.user = TestUser("test@example.com")
  /\ event.op = "loginResolved" =>
       /\ ~authProvider.loading
       /\ RightCredentials =>
            authProvider.user = TestUser("test@example.com")
       /\ ~RightCredentials =>
            /\ authProvider.user = null
            /\ authProvider.error = "Invalid credentials"

\* a login with a wrong password has completed: loading is over, no user is
\* set and the error is shown
LoginOneAtATimeWitness ==
  /\ event.op = "loginResolved"
  /\ event.before.loading
  /\ event.credentials.email = "test@example.com"
  /\ event.credentials.password = "wrongpassword"
  /\ ~authProvider.loading
  /\ authProvider.user = null
  /\ authProvider.error = "Invalid credentials"

\* C34 (adding a todo): an add with an empty or all-blank input leaves the
\* list, and the input, as they were; an add with any other input appends
\* one todo, whose text is the input trimmed and which is not completed,
\* behind the todos there were, and clears the input.
AddTodoTrims ==
  event.op = "addTodo" =>
    IF trim(event.before.inputValue) = ""
    THEN /\ todoList.todos = event.before.todos
         /\ todoList.inputValue = event.before.inputValue
    ELSE /\ Len(todoList.todos) = Len(event.before.todos) + 1
         /\ SubSeq(todoList.todos, 1, Len(event.before.todos))
              = event.before.todos
         /\ todoList.todos[Len(todoList.todos)].text
              = trim(event.before.inputValue)
         /\ todoList.todos[Len(todoList.todos)].text # ""
         /\ ~todoList.todos[Len(todoList.todos)].completed
         /\ todoList.inputValue = ""

\* " Walk " was added to a list of one todo: the second todo is "Walk"
AddTodoTrimsWitness ==
  /\ event.op = "addTodo"
  /\ event.before.inputValue = " Walk "
  /\ Len(event.before.todos) = 1
  /\ Len(todoList.todos) = 2
  /\ todoList.todos[2].text = "Walk"
  /\ todoList.inputValue = ""

\* C35 (distinct ids): in every reachable state the ids of the todos are
\* pairwise distinct, so that a Delete removes the one todo it was clicked on
\* and a toggle changes the completion of one todo, and of that one, also
\* when two todos were added within the same millisecond.
TodoIdsDistinct ==
  /\ \A i, j \in 1..Len(todoList.todos) :
       i # j => todoList.todos[i].id # todoList.todos[j].id
  /\ event.op = "deleteTodo" =>
       Len(todoList.todos) = Len(event.before.todos) - 1
  /\ event.op = "toggleTodo" =>
       \A k \in 1..Len(todoList.todos) :
         (todoList.todos[k] # event.before.todos[k]) <=> (k = event.i)

====
